---- MODULE Spec2Model ----
(***************************************************************************)
(* A model of the ring buffer of react-circular-queue: the CircularBuffer  *)
(* store (core/CircularBuffer.ts) and the BufferManager facade             *)
(* (core/BufferManager.ts) that delegates to it.                           *)
(*                                                                         *)
(* The state is one CircularBuffer object (its six private fields), the    *)
(* last call made on it with its outcome, and a snapshot of the fields as  *)
(* they were when that call started.  Every method is a pure operator from *)
(* a store record to an outcome (the new store record and what the call    *)
(* returned or threw); one action per method applies it.  The program is   *)
(* synchronous and single-threaded: its caller makes one call, takes the   *)
(* outcome (Return), and only then makes the next call.                    *)
(*                                                                         *)
(* HookSpec is a component using the useCircularBuffer hook                *)
(* (hooks/useCircularBuffer.ts): the capacity argument of its last render  *)
(* and the values the hook returned at that render, each callback taken    *)
(* together with the render its setData triggers.                          *)
(*                                                                         *)
(* IterSpec steps the generator of [Symbol.iterator] one resumption at a   *)
(* time, for two iterators held at once and no mutation while one is held; *)
(* MutIterSpec steps one iterator with mutations between its resumptions.  *)
(***************************************************************************)
EXTENDS Integers, Sequences, FiniteSets

\* ------------------------------------------------------------------ bounds

\* Capacities passed to the constructor and to resize range over 1 .. MaxCap.
MaxCap == 3
\* The element values pushed are 1 .. NumItems.
NumItems == 2

Items == 1 .. NumItems
\* Bulk inputs have length 0 .. MaxLen, one more than the largest capacity.
MaxLen == MaxCap + 1
\* Count arguments of get / popHead / popTail.
Counts == (0 - 1) .. (MaxCap + 1)
\* Capacity arguments of the constructor and of resize (0 and below are
\* rejected).
ResizeArgs == (0 - 1) .. MaxCap

\* A bulk input of length len starting with item a: a, a+1, ... cycling through
\* the items, so that neighbours differ and both ends are told apart.
Ramp(a, len) == [i \in 1 .. len |-> ((a - 1 + (i - 1)) % NumItems) + 1]

Inputs == {Ramp(a, len) : a \in Items, len \in 0 .. MaxLen}

\* ------------------------------------------------------- JavaScript values

\* The value of an empty array slot and of a missing return value.
Undefined == 0

\* The Direction object of types/index.ts and a property read on it: a key
\* the object does not have reads as undefined.
Direction == [HEAD |-> "head", TAIL |-> "tail"]

Member(obj, key) == IF key \in DOMAIN obj THEN obj[key] ELSE "undefined"

\* Direction values a caller of the store can pass: the two members and one
\* value outside the enumeration.
Directions == {Direction.HEAD, Direction.TAIL, "undefined"}

\* JavaScript's remainder: the sign of the result is the sign of the dividend.
JsMod(a, m) == IF a >= 0 THEN a % m ELSE 0 - ((0 - a) % m)

Min(a, c) == IF a < c THEN a ELSE c
Max(a, c) == IF a > c THEN a ELSE c

\* new Array(n): n empty slots.
NewArray(n) == [i \in 1 .. n |-> Undefined]

\* Array.prototype.slice(start, end) on a sequence (zero-based, end exclusive,
\* negative indices count from the end).
Slice(s, start, end) ==
    LET len  == Len(s)
        from == IF start < 0 THEN Max(len + start, 0) ELSE Min(start, len)
        to   == IF end < 0 THEN Max(len + end, 0) ELSE Min(end, len)
    IN IF to <= from THEN <<>> ELSE SubSeq(s, from + 1, to)

\* ---------------------------------------------------------------- outcomes

InvalidDirection == "Invalid direction"
InvalidCapacity == "Capacity must be greater than 0"

\* What a call leaves behind: the store, and a return value or an exception.
Void(b) == [st |-> b, kind |-> "void", val |-> <<>>, msg |-> ""]
Value(b, v) == [st |-> b, kind |-> "value", val |-> <<v>>, msg |-> ""]
Array(b, a) == [st |-> b, kind |-> "array", val |-> a, msg |-> ""]
Throw(b, m) == [st |-> b, kind |-> "throw", val |-> <<>>, msg |-> m]

\* ---------------------------------------------------------- CircularBuffer

VARIABLES buffer, capacity, logicalCapacity, size, head, tail, op, ret, before,
          mounted, capacityParam, view, iters

vars ==
    <<buffer, capacity, logicalCapacity, size, head, tail, op, ret, before,
      mounted, capacityParam, view, iters>>

\* The state of a component that uses the useCircularBuffer hook: whether it is
\* mounted, the capacity argument of its last render, and what the hook
\* returned at that render.
hookVars == <<mounted, capacityParam, view>>

\* The store as one record.
St ==
    [buffer |-> buffer, capacity |-> capacity, logicalCapacity |-> logicalCapacity,
     size |-> size, head |-> head, tail |-> tail]

\* this.buffer[i]
At(b, i) == b.buffer[i + 1]

\* constructor rejecting negative capacities only.
constructor_acceptsZero(cap) ==
    IF cap < 0 THEN Throw(<<>>, InvalidCapacity)
    ELSE Void([buffer |-> NewArray(cap), capacity |-> cap, logicalCapacity |-> cap,
               size |-> 0, head |-> 0, tail |-> 0])

constructor(cap) ==
    IF cap <= 0 THEN Throw(<<>>, InvalidCapacity)
    ELSE Void([buffer |-> NewArray(cap), capacity |-> cap, logicalCapacity |-> cap,
               size |-> 0, head |-> 0, tail |-> 0])

\* pushAtHead with the item written before the cursor moves.
pushAtHead_writeFirst(b, item) ==
    LET h  == JsMod(b.head - 1 + b.capacity, b.capacity)
        b1 == [b EXCEPT !.buffer[b.head + 1] = item, !.head = h]
    IN IF b.size < b.logicalCapacity
       THEN [b1 EXCEPT !.size = b.size + 1]
       ELSE [b1 EXCEPT !.tail = JsMod(b.tail - 1 + b.capacity, b.capacity)]

\* pushAtHead leaving the tail cursor where it is when it overwrites.
pushAtHead_tailStays(b, item) ==
    LET h  == JsMod(b.head - 1 + b.capacity, b.capacity)
        b1 == [b EXCEPT !.head = h, !.buffer[h + 1] = item]
    IN IF b.size < b.logicalCapacity THEN [b1 EXCEPT !.size = b.size + 1] ELSE b1

\* push, the Direction.HEAD branch.
pushAtHead(b, item) ==
    LET h  == JsMod(b.head - 1 + b.capacity, b.capacity)
        b1 == [b EXCEPT !.head = h, !.buffer[h + 1] = item]
    IN IF b.size < b.logicalCapacity
       THEN [b1 EXCEPT !.size = b.size + 1]
       ELSE [b1 EXCEPT !.tail = JsMod(b.tail - 1 + b.capacity, b.capacity)]

\* pushAtTail with the size counted up on every push.
pushAtTail_unbounded(b, item) ==
    [b EXCEPT !.buffer[b.tail + 1] = item,
              !.tail = JsMod(b.tail + 1, b.capacity),
              !.size = b.size + 1]

\* pushAtTail with the oldest cursor left in place on a full buffer.
pushAtTail_keepOldest(b, item) ==
    LET b1 == [b EXCEPT !.buffer[b.tail + 1] = item,
                        !.tail = JsMod(b.tail + 1, b.capacity)]
    IN IF b.size < b.logicalCapacity THEN [b1 EXCEPT !.size = b.size + 1] ELSE b1

\* pushAtTail evicting only when the physical storage is full.
pushAtTail_physical(b, item) ==
    LET b1 == [b EXCEPT !.buffer[b.tail + 1] = item,
                        !.tail = JsMod(b.tail + 1, b.capacity)]
    IN IF b.size < b.capacity
       THEN [b1 EXCEPT !.size = b.size + 1]
       ELSE [b1 EXCEPT !.head = JsMod(b.head + 1, b.capacity)]

\* push, the Direction.TAIL branch.
pushAtTail(b, item) ==
    LET b1 == [b EXCEPT !.buffer[b.tail + 1] = item,
                        !.tail = JsMod(b.tail + 1, b.capacity)]
    IN IF b.size < b.logicalCapacity
       THEN [b1 EXCEPT !.size = b.size + 1]
       ELSE [b1 EXCEPT !.head = JsMod(b.head + 1, b.capacity)]

\* push taking every direction other than HEAD for TAIL.
push_defaultTail(b, item, direction) ==
    IF direction = Direction.HEAD THEN Void(pushAtHead(b, item))
    ELSE Void(pushAtTail(b, item))

\* push storing the item at the tail before it rejects the direction.
push_writeThenThrow(b, item, direction) ==
    IF direction = Direction.HEAD THEN Void(pushAtHead(b, item))
    ELSE IF direction = Direction.TAIL THEN Void(pushAtTail(b, item))
    ELSE Throw(pushAtTail(b, item), InvalidDirection)

push(b, item, direction) ==
    IF direction = Direction.HEAD THEN Void(pushAtHead(b, item))
    ELSE IF direction = Direction.TAIL THEN Void(pushAtTail(b, item))
    ELSE Throw(b, InvalidDirection)

\* pop, the Direction.HEAD branch (the buffer is not empty).
popAtHead_resetHeadOnly(b) ==
    LET item == At(b, b.head)
        b1   == [b EXCEPT !.buffer[b.head + 1] = Undefined,
                          !.head = JsMod(b.head + 1, b.capacity),
                          !.size = b.size - 1]
    IN Value(IF b1.size = 0 THEN [b1 EXCEPT !.head = 0] ELSE b1, item)

popAtHead(b) ==
    LET item == At(b, b.head)
        b1   == [b EXCEPT !.buffer[b.head + 1] = Undefined,
                          !.head = JsMod(b.head + 1, b.capacity),
                          !.size = b.size - 1]
    IN Value(IF b1.size = 0 THEN [b1 EXCEPT !.head = 0, !.tail = 0] ELSE b1, item)

\* popAtTail reading the next-write slot instead of the one before it.
popAtTail_offByOne(b) ==
    LET lastIndex == JsMod(b.tail - 1 + b.capacity, b.capacity)
        item      == At(b, b.tail)
        b1        == [b EXCEPT !.buffer[lastIndex + 1] = Undefined,
                               !.tail = lastIndex,
                               !.size = b.size - 1]
    IN Value(IF b1.size = 0 THEN [b1 EXCEPT !.head = 0, !.tail = 0] ELSE b1, item)

\* pop, the Direction.TAIL branch (the buffer is not empty).
popAtTail_noReset(b) ==
    LET lastIndex == JsMod(b.tail - 1 + b.capacity, b.capacity)
        item      == At(b, lastIndex)
    IN Value([b EXCEPT !.buffer[lastIndex + 1] = Undefined,
                       !.tail = lastIndex,
                       !.size = b.size - 1], item)

popAtTail(b) ==
    LET lastIndex == JsMod(b.tail - 1 + b.capacity, b.capacity)
        item      == At(b, lastIndex)
        b1        == [b EXCEPT !.buffer[lastIndex + 1] = Undefined,
                               !.tail = lastIndex,
                               !.size = b.size - 1]
    IN Value(IF b1.size = 0 THEN [b1 EXCEPT !.head = 0, !.tail = 0] ELSE b1, item)

\* pop without the early return on an empty buffer.
\* pop taking from the other side.
pop_swapped(b, direction) ==
    IF b.size = 0 THEN Value(b, Undefined)
    ELSE IF direction = Direction.HEAD THEN popAtTail(b)
    ELSE IF direction = Direction.TAIL THEN popAtHead(b)
    ELSE Throw(b, InvalidDirection)

\* pop rejecting an empty buffer.
pop_throwOnEmpty(b, direction) ==
    IF b.size = 0 THEN Throw(b, "Buffer is empty")
    ELSE IF direction = Direction.HEAD THEN popAtHead(b)
    ELSE IF direction = Direction.TAIL THEN popAtTail(b)
    ELSE Throw(b, InvalidDirection)

pop_noEmptyCheck(b, direction) ==
    IF direction = Direction.HEAD THEN popAtHead(b)
    ELSE IF direction = Direction.TAIL THEN popAtTail(b)
    ELSE Throw(b, InvalidDirection)

\* pop taking every direction other than HEAD for TAIL.
pop_defaultTail(b, direction) ==
    IF b.size = 0 THEN Value(b, Undefined)
    ELSE IF direction = Direction.HEAD THEN popAtHead(b)
    ELSE popAtTail(b)

pop(b, direction) ==
    IF b.size = 0 THEN Value(b, Undefined)
    ELSE IF direction = Direction.HEAD THEN popAtHead(b)
    ELSE IF direction = Direction.TAIL THEN popAtTail(b)
    ELSE Throw(b, InvalidDirection)

\* get(direction): the single-item peek.
getOne_consuming(b, direction) ==
    IF b.size = 0 THEN Value(b, Undefined)
    ELSE IF direction = Direction.HEAD THEN popAtHead(b)
    ELSE IF direction = Direction.TAIL
         THEN Value(b, At(b, JsMod(b.tail - 1 + b.capacity, b.capacity)))
    ELSE Throw(b, InvalidDirection)

getOne(b, direction) ==
    IF b.size = 0 THEN Value(b, Undefined)
    ELSE IF direction = Direction.HEAD THEN Value(b, At(b, b.head))
    ELSE IF direction = Direction.TAIL
         THEN Value(b, At(b, JsMod(b.tail - 1 + b.capacity, b.capacity)))
    ELSE Throw(b, InvalidDirection)

\* tailWalk started at the next-write slot.
RECURSIVE tailWalk_fromTail(_, _)
tailWalk_fromTail(b, i) ==
    IF i = 0 THEN b.tail
    ELSE JsMod(tailWalk_fromTail(b, i - 1) - 1 + b.capacity, b.capacity)

\* The index the TAIL walk of get reads at step i (zero-based): it starts at
\* the newest slot and retreats by one, modularly, each step.
RECURSIVE tailWalk(_, _)
tailWalk(b, i) ==
    IF i = 0 THEN JsMod(b.tail - 1 + b.capacity, b.capacity)
    ELSE JsMod(tailWalk(b, i - 1) - 1 + b.capacity, b.capacity)

\* Math.min(Math.max(0, Math.floor(count)), size), count an integer.
clampCount(count, sz) == Min(Max(0, count), sz)

\* getMany returning an empty array for an unknown direction.
getMany_noThrow(b, direction, count) ==
    IF b.size = 0 THEN Array(b, <<>>)
    ELSE LET n == clampCount(count, b.size)
         IN IF n = 0 THEN Array(b, <<>>)
            ELSE IF direction = Direction.HEAD
                 THEN Array(b, [i \in 1 .. n |-> At(b, JsMod(b.head + (i - 1), b.capacity))])
            ELSE IF direction = Direction.TAIL
                 THEN Array(b, [i \in 1 .. n |-> At(b, tailWalk(b, i - 1))])
            ELSE Array(b, <<>>)

\* get(direction, count): the counted peek.
getMany(b, direction, count) ==
    IF b.size = 0 THEN Array(b, <<>>)
    ELSE LET n == clampCount(count, b.size)
         IN IF n = 0 THEN Array(b, <<>>)
            ELSE IF direction = Direction.HEAD
                 THEN Array(b, [i \in 1 .. n |-> At(b, JsMod(b.head + (i - 1), b.capacity))])
            ELSE IF direction = Direction.TAIL
                 THEN Array(b, [i \in 1 .. n |-> At(b, tailWalk(b, i - 1))])
            ELSE Throw(b, InvalidDirection)

clear_keepCursors(b) ==
    Void([b EXCEPT !.buffer = NewArray(b.capacity), !.size = 0])

clear(b) ==
    Void([b EXCEPT !.buffer = NewArray(b.capacity), !.head = 0, !.tail = 0, !.size = 0])

\* resize copying slot i to slot i on expansion, whatever the oldest cursor is.
resize_copyFromZero(b, newCapacity) ==
    IF newCapacity <= 0 THEN Throw(b, InvalidCapacity)
    ELSE IF newCapacity > b.capacity
         THEN Void([b EXCEPT
                 !.buffer = [i \in 1 .. newCapacity |->
                               IF i <= b.size THEN At(b, i - 1) ELSE Undefined],
                 !.head = 0,
                 !.tail = b.size,
                 !.capacity = newCapacity,
                 !.logicalCapacity = newCapacity])
    ELSE IF newCapacity < b.size
         THEN Void([b EXCEPT
                 !.head = JsMod(b.head + (b.size - newCapacity), b.capacity),
                 !.size = newCapacity,
                 !.logicalCapacity = newCapacity])
    ELSE Void([b EXCEPT !.logicalCapacity = newCapacity])

\* resize shrinking from the newest end: the oldest cursor stays.
resize_dropNewest(b, newCapacity) ==
    IF newCapacity <= 0 THEN Throw(b, InvalidCapacity)
    ELSE IF newCapacity > b.capacity
         THEN Void([b EXCEPT
                 !.buffer = [i \in 1 .. newCapacity |->
                               IF i <= b.size
                               THEN At(b, JsMod(b.head + (i - 1), b.capacity))
                               ELSE Undefined],
                 !.head = 0,
                 !.tail = b.size,
                 !.capacity = newCapacity,
                 !.logicalCapacity = newCapacity])
    ELSE IF newCapacity < b.size
         THEN Void([b EXCEPT
                 !.tail = JsMod(b.head + newCapacity, b.capacity),
                 !.size = newCapacity,
                 !.logicalCapacity = newCapacity])
    ELSE Void([b EXCEPT !.logicalCapacity = newCapacity])

\* resize emptying the slots of the items it discards.
resize_compact(b, newCapacity) ==
    IF newCapacity <= 0 THEN Throw(b, InvalidCapacity)
    ELSE IF newCapacity > b.capacity
         THEN Void([b EXCEPT
                 !.buffer = [i \in 1 .. newCapacity |->
                               IF i <= b.size
                               THEN At(b, JsMod(b.head + (i - 1), b.capacity))
                               ELSE Undefined],
                 !.head = 0,
                 !.tail = b.size,
                 !.capacity = newCapacity,
                 !.logicalCapacity = newCapacity])
    ELSE IF newCapacity < b.size
         THEN Void([b EXCEPT
                 !.buffer = [i \in 1 .. b.capacity |->
                               IF \E k \in 0 .. (b.size - newCapacity) - 1 :
                                     i - 1 = JsMod(b.head + k, b.capacity)
                               THEN Undefined ELSE b.buffer[i]],
                 !.head = JsMod(b.head + (b.size - newCapacity), b.capacity),
                 !.size = newCapacity,
                 !.logicalCapacity = newCapacity])
    ELSE Void([b EXCEPT !.logicalCapacity = newCapacity])

\* resize raising the logical capacity without growing the storage.
resize_logicalOnly(b, newCapacity) ==
    IF newCapacity <= 0 THEN Throw(b, InvalidCapacity)
    ELSE IF newCapacity < b.size
         THEN Void([b EXCEPT
                 !.head = JsMod(b.head + (b.size - newCapacity), b.capacity),
                 !.size = newCapacity,
                 !.logicalCapacity = newCapacity])
    ELSE Void([b EXCEPT !.logicalCapacity = newCapacity])

resize(b, newCapacity) ==
    IF newCapacity <= 0 THEN Throw(b, InvalidCapacity)
    ELSE IF newCapacity > b.capacity
         THEN Void([b EXCEPT
                 !.buffer = [i \in 1 .. newCapacity |->
                               IF i <= b.size
                               THEN At(b, JsMod(b.head + (i - 1), b.capacity))
                               ELSE Undefined],
                 !.head = 0,
                 !.tail = b.size,
                 !.capacity = newCapacity,
                 !.logicalCapacity = newCapacity])
    ELSE IF newCapacity < b.size
         THEN Void([b EXCEPT
                 !.head = JsMod(b.head + (b.size - newCapacity), b.capacity),
                 !.size = newCapacity,
                 !.logicalCapacity = newCapacity])
    ELSE Void([b EXCEPT !.logicalCapacity = newCapacity])

getSize(b) == b.size

getCapacity(b) == b.capacity

getLogicalCapacity(b) == b.logicalCapacity

\* [Symbol.iterator] run to its end with no call in between: the items from
\* oldest to newest.
iterate(b) == [i \in 1 .. b.size |-> At(b, JsMod(b.head + (i - 1), b.capacity))]

\* The iterator objects the caller holds, obtained from [Symbol.iterator]().
IterIds == {1, 2}

\* An iterator: whether it exists and is suspended ("open") or has returned
\* ("done"), and the loop variable i of its generator body.
NoIter == [state |-> "none", i |-> 0]

NoIters == [k \in IterIds |-> NoIter]

\* [Symbol.iterator](): a new generator, its body not yet started.
newIterator == [state |-> "open", i |-> 0]

\* next() wrapping at the logical capacity instead of the physical one.
next_logicalModulus(b, it) ==
    IF it.i < b.size
    THEN [out |-> Value(b, At(b, JsMod(b.head + it.i, b.logicalCapacity))),
          it  |-> [it EXCEPT !.i = it.i + 1]]
    ELSE [out |-> [st |-> b, kind |-> "done", val |-> <<>>, msg |-> ""],
          it  |-> [it EXCEPT !.state = "done"]]

\* next() reading the slots from 0 instead of from head.
next_fromZero(b, it) ==
    IF it.i < b.size
    THEN [out |-> Value(b, At(b, it.i)),
          it  |-> [it EXCEPT !.i = it.i + 1]]
    ELSE [out |-> [st |-> b, kind |-> "done", val |-> <<>>, msg |-> ""],
          it  |-> [it EXCEPT !.state = "done"]]

\* One next() on an open iterator it of the store b: the loop test with the
\* size of this moment, then either the yield of the slot head + i, read with
\* the head, capacity and storage of this moment, or the end of the generator.
next(b, it) ==
    IF it.i < b.size
    THEN [out |-> Value(b, At(b, JsMod(b.head + it.i, b.capacity))),
          it  |-> [it EXCEPT !.i = it.i + 1]]
    ELSE [out |-> [st |-> b, kind |-> "done", val |-> <<>>, msg |-> ""],
          it  |-> [it EXCEPT !.state = "done"]]

\* ----------------------------------------------------------- BufferManager

\* The two directions the facade names. The Direction object has the keys
\* HEAD and TAIL only, so both reads yield undefined.
FRONT == Member(Direction, "FRONT")

BACK == Member(Direction, "BACK")

\* The argument of pushHead / pushTail: one item, or an array of items.
Single(x) == [isArray |-> FALSE, items |-> <<x>>]

ArrayOf(s) == [isArray |-> TRUE, items |-> s]

isMany(input) == input.isArray

\* for (let i = itemsToAdd.length - 1; i >= 0; i--) push(itemsToAdd[i], FRONT);
\* an exception ends the loop and leaves the store as the pushes so far made it.
RECURSIVE pushHeadLoop(_, _, _)
pushHeadLoop(b, itemsToAdd, i) ==
    IF i < 0 THEN Void(b)
    ELSE LET r == push(b, itemsToAdd[i + 1], FRONT)
         IN IF r.kind = "throw" THEN r ELSE pushHeadLoop(r.st, itemsToAdd, i - 1)

pushHead(b, input) ==
    IF ~isMany(input) THEN push(b, input.items[1], FRONT)
    ELSE LET cap        == getLogicalCapacity(b)
             itemsToAdd == IF Len(input.items) > cap
                           THEN Slice(input.items, 0, cap)
                           ELSE input.items
         IN pushHeadLoop(b, itemsToAdd, Len(itemsToAdd) - 1)

\* for (const item of itemsToAdd) push(item, BACK), from position i on.
RECURSIVE pushTailLoop(_, _, _)
pushTailLoop(b, itemsToAdd, i) ==
    IF i >= Len(itemsToAdd) THEN Void(b)
    ELSE LET r == push(b, itemsToAdd[i + 1], BACK)
         IN IF r.kind = "throw" THEN r ELSE pushTailLoop(r.st, itemsToAdd, i + 1)

pushTail(b, input) ==
    IF ~isMany(input) THEN push(b, input.items[1], BACK)
    ELSE LET cap        == getLogicalCapacity(b)
             itemsToAdd == IF Len(input.items) > cap
                           THEN Slice(input.items, 0 - cap, Len(input.items))
                           ELSE input.items
         IN pushTailLoop(b, itemsToAdd, 0)

\* for (let i = 0; i < n; i++) result[i] = pop(direction), from step i on with
\* the results so far.
RECURSIVE popLoop(_, _, _, _, _)
popLoop(b, direction, n, i, result) ==
    IF i >= n THEN Array(b, result)
    ELSE LET r == pop(b, direction)
         IN IF r.kind = "throw" THEN r
            ELSE popLoop(r.st, direction, n, i + 1, Append(result, r.val[1]))

\* popHead() when counted is FALSE, popHead(count) otherwise.
popHead(b, counted, count) ==
    IF ~counted THEN pop(b, FRONT)
    ELSE LET n == clampCount(count, getSize(b))
         IN IF n = 0 THEN Array(b, <<>>) ELSE popLoop(b, FRONT, n, 0, <<>>)

popTail(b, counted, count) ==
    IF ~counted THEN pop(b, BACK)
    ELSE LET n == clampCount(count, getSize(b))
         IN IF n = 0 THEN Array(b, <<>>) ELSE popLoop(b, BACK, n, 0, <<>>)

getHead(b, counted, count) ==
    IF ~counted THEN getOne(b, FRONT) ELSE getMany(b, FRONT, count)

getTail(b, counted, count) ==
    IF ~counted THEN getOne(b, BACK) ELSE getMany(b, BACK, count)

getAll(b) == Array(b, iterate(b))

replaceAll(b, items) == pushTail(clear(b).st, ArrayOf(items))

\* The callback arguments of forEach / map / filter: each item with its index,
\* oldest first, the callback changing nothing.
visits_indexFromOne(b) == [i \in 1 .. Len(iterate(b)) |-> <<iterate(b)[i], i>>]

visits(b) == [i \in 1 .. Len(iterate(b)) |-> <<iterate(b)[i], i - 1>>]

forEach(b) == Void(b)

\* map(callback): one result per visit, in order.
map(b, callback) ==
    Array(b, [i \in 1 .. Len(visits(b)) |-> callback[visits(b)[i][1], visits(b)[i][2]]])

RECURSIVE filterLoop(_, _, _, _)
filterLoop(v, predicate, i, out) ==
    IF i > Len(v) THEN out
    ELSE filterLoop(v, predicate, i + 1,
                    IF predicate[v[i][1], v[i][2]] THEN Append(out, v[i][1]) ELSE out)

\* filter(predicate): the accepted items, in order.
filter(b, predicate) == Array(b, filterLoop(visits(b), predicate, 1, <<>>))

\* The callbacks the caller passes, as functions of (item, index).
TimesTenPlusIndex == [item \in 0 .. NumItems, index \in 0 .. MaxCap |-> item * 10 + index]

IsFirstItem == [item \in 0 .. NumItems, index \in 0 .. MaxCap |-> item = 1]

IsEvenIndex == [item \in 0 .. NumItems, index \in 0 .. MaxCap |-> index % 2 = 0]

size_(b) == getSize(b)

capacity_(b) == getLogicalCapacity(b)

isEmpty(b) == size_(b) = 0

isFull_physical(b) == size_(b) = getCapacity(b)

isFull(b) == size_(b) = capacity_(b)

available(b) == capacity_(b) - size_(b)

\* { first: getHead(), last: getTail() }, returned as <<first, last>>.
getFirstAndLast(b) ==
    LET first == getHead(b, FALSE, 0)
        last  == getTail(b, FALSE, 0)
    IN IF first.kind = "throw" THEN first
       ELSE IF last.kind = "throw" THEN last
       ELSE [st |-> b, kind |-> "pair", val |-> <<first.val[1], last.val[1]>>, msg |-> ""]

\* { data: getAll(), totalCount: size() }, returned as <<totalCount>> \o data.
getInfo(b) ==
    [st |-> b, kind |-> "info", val |-> <<size_(b)>> \o getAll(b).val, msg |-> ""]

\* -------------------------------------------------------- useCircularBuffer

\* What the hook returns at a render: the state `data` and the status values
\* read from the manager during that render.
Render(b, data) ==
    [data |-> data, size |-> size_(b), capacity |-> capacity_(b),
     isEmpty |-> isEmpty(b), isFull |-> isFull(b), available |-> available(b)]

\* No component is mounted, so no render has returned anything.
NoView ==
    [data |-> <<>>, size |-> 0, capacity |-> 0,
     isEmpty |-> TRUE, isFull |-> FALSE, available |-> 0]

\* sync(): setData(buffer.getAll()), and the render the new state triggers.
sync(b) == Render(b, getAll(b).val)

\* A callback of the form `mutate; sync()`: an exception in the mutation leaves
\* the callback before sync() is reached, so nothing is rendered anew.
Synced(r, v) ==
    [out |-> r, view |-> IF r.kind = "throw" THEN v ELSE sync(r.st), mounted |-> TRUE]

\* The first render and the effects after it. An exception in the lazy
\* initialiser or in the effect leaves the component unmounted.
mount(cap, initialItems) ==
    LET c == constructor(cap)
    IN IF c.kind = "throw" THEN [out |-> c, view |-> NoView, mounted |-> FALSE]
       ELSE LET p == IF Len(initialItems) > 0
                     THEN pushTail(c.st, ArrayOf(initialItems))
                     ELSE Void(c.st)
            IN IF p.kind = "throw" THEN [out |-> p, view |-> NoView, mounted |-> FALSE]
               ELSE LET e == resize(p.st, cap)
                    IN IF e.kind = "throw"
                       THEN [out |-> e, view |-> NoView, mounted |-> FALSE]
                       ELSE [out |-> e, view |-> sync(e.st), mounted |-> TRUE]

\* A later render with the capacity argument cap, the previous one having been
\* prev: the lazy initialiser does not run again, and the effect runs only
\* when the capacity differs.
rerender_noSync(b, v, prev, cap) ==
    IF cap = prev THEN [out |-> Void(b), view |-> Render(b, v.data), mounted |-> TRUE]
    ELSE LET e == resize(b, cap)
         IN IF e.kind = "throw"
            THEN [out |-> e, view |-> Render(b, v.data), mounted |-> FALSE]
            ELSE [out |-> e, view |-> Render(e.st, v.data), mounted |-> TRUE]

rerender(b, v, prev, cap) ==
    IF cap = prev THEN [out |-> Void(b), view |-> Render(b, v.data), mounted |-> TRUE]
    ELSE LET e == resize(b, cap)
         IN IF e.kind = "throw"
            THEN [out |-> e, view |-> Render(b, v.data), mounted |-> FALSE]
            ELSE [out |-> e, view |-> sync(e.st), mounted |-> TRUE]

hookPushHead(b, v, input) == Synced(pushHead(b, input), v)

hookPushTail(b, v, input) == Synced(pushTail(b, input), v)

hookPopHead(b, v, counted, count) == Synced(popHead(b, counted, count), v)

hookPopTail(b, v, counted, count) == Synced(popTail(b, counted, count), v)

\* buffer.clear(); setData([]).
hookClear(b, v) ==
    LET r == clear(b) IN [out |-> r, view |-> Render(r.st, <<>>), mounted |-> TRUE]

hookReplaceAll(b, v, items) == Synced(replaceAll(b, items), v)

hookResize(b, v, newCapacity) == Synced(resize(b, newCapacity), v)

\* ----------------------------------------------------------------- actions

Call(name, dir, items, n) == [name |-> name, dir |-> dir, items |-> items, n |-> n]

\* The caller is between two calls.
NoCall == Call("none", "", <<>>, 0)

NoRet == [kind |-> "none", val |-> <<>>, msg |-> ""]

\* A call ran on the store: its outcome replaces the fields, and the call,
\* what it returned and the fields it started from are recorded.
Commit(r, o) ==
    /\ op = NoCall
    /\ buffer' = r.st.buffer
    /\ capacity' = r.st.capacity
    /\ logicalCapacity' = r.st.logicalCapacity
    /\ size' = r.st.size
    /\ head' = r.st.head
    /\ tail' = r.st.tail
    /\ op' = o
    /\ ret' = [kind |-> r.kind, val |-> r.val, msg |-> r.msg]
    /\ before' = St
    /\ UNCHANGED hookVars
    /\ UNCHANGED iters

Init ==
    \E cap \in 1 .. MaxCap :
        LET r == constructor(cap)
        IN /\ buffer = r.st.buffer
           /\ capacity = r.st.capacity
           /\ logicalCapacity = r.st.logicalCapacity
           /\ size = r.st.size
           /\ head = r.st.head
           /\ tail = r.st.tail
           /\ op = Call("constructor", "", <<>>, cap)
           /\ ret = [kind |-> r.kind, val |-> r.val, msg |-> r.msg]
           /\ before = r.st
           /\ mounted = FALSE
           /\ capacityParam = 0
           /\ view = NoView
           /\ iters = NoIters

\* The caller has the outcome of its call and goes on to the next one.
Return ==
    /\ op # NoCall
    /\ op' = NoCall
    /\ ret' = NoRet
    /\ before' = St
    /\ UNCHANGED <<buffer, capacity, logicalCapacity, size, head, tail>>
    /\ UNCHANGED hookVars
    /\ UNCHANGED iters

CallPush ==
    \E item \in Items, d \in Directions :
        Commit(push(St, item, d), Call("push", d, <<item>>, 0))

CallPop ==
    \E d \in Directions : Commit(pop(St, d), Call("pop", d, <<>>, 0))

CallGetOne ==
    \E d \in Directions : Commit(getOne(St, d), Call("get", d, <<>>, 0))

CallGetMany ==
    \E d \in Directions, n \in Counts :
        Commit(getMany(St, d, n), Call("getN", d, <<>>, n))

CallClear == Commit(clear(St), Call("clear", "", <<>>, 0))

CallResize ==
    \E c \in ResizeArgs : Commit(resize(St, c), Call("resize", "", <<>>, c))

CallPushHead ==
    \/ \E item \in Items :
          Commit(pushHead(St, Single(item)), Call("pushHead", "", <<item>>, 0))
    \/ \E items \in Inputs :
          Commit(pushHead(St, ArrayOf(items)), Call("pushHeadMany", "", items, 0))

CallPushTail ==
    \/ \E item \in Items :
          Commit(pushTail(St, Single(item)), Call("pushTail", "", <<item>>, 0))
    \/ \E items \in Inputs :
          Commit(pushTail(St, ArrayOf(items)), Call("pushTailMany", "", items, 0))

CallPopHead ==
    \/ Commit(popHead(St, FALSE, 0), Call("popHead", "", <<>>, 0))
    \/ \E n \in Counts : Commit(popHead(St, TRUE, n), Call("popHeadN", "", <<>>, n))

CallPopTail ==
    \/ Commit(popTail(St, FALSE, 0), Call("popTail", "", <<>>, 0))
    \/ \E n \in Counts : Commit(popTail(St, TRUE, n), Call("popTailN", "", <<>>, n))

CallGetHead ==
    \/ Commit(getHead(St, FALSE, 0), Call("getHead", "", <<>>, 0))
    \/ \E n \in Counts : Commit(getHead(St, TRUE, n), Call("getHeadN", "", <<>>, n))

CallGetTail ==
    \/ Commit(getTail(St, FALSE, 0), Call("getTail", "", <<>>, 0))
    \/ \E n \in Counts : Commit(getTail(St, TRUE, n), Call("getTailN", "", <<>>, n))

CallGetAll == Commit(getAll(St), Call("getAll", "", <<>>, 0))

CallReplaceAll ==
    \E items \in Inputs : Commit(replaceAll(St, items), Call("replaceAll", "", items, 0))

\* new CircularBuffer(cap): the caller's buffer is the new object, or the one
\* it had when the constructor throws.
CallNew ==
    \E cap \in ResizeArgs :
        LET r == constructor(cap)
        IN Commit(IF r.kind = "throw" THEN Throw(St, r.msg) ELSE r,
                  Call("new", "", <<>>, cap))

\* for (const item of buffer) ... / Array.from(buffer), run to its end.
CallIterate == Commit(Array(St, iterate(St)), Call("iterate", "", <<>>, 0))

CallForEach == Commit(forEach(St), Call("forEach", "", <<>>, 0))

CallMap == Commit(map(St, TimesTenPlusIndex), Call("map", "", <<>>, 0))

CallFilter ==
    \/ Commit(filter(St, IsFirstItem), Call("filter", "item", <<>>, 0))
    \/ Commit(filter(St, IsEvenIndex), Call("filter", "index", <<>>, 0))

CallGetInfo == Commit(getInfo(St), Call("getInfo", "", <<>>, 0))

CallGetFirstAndLast == Commit(getFirstAndLast(St), Call("getFirstAndLast", "", <<>>, 0))

CallStatus ==
    \/ Commit(Value(St, size_(St)), Call("size", "", <<>>, 0))
    \/ Commit(Value(St, capacity_(St)), Call("capacity", "", <<>>, 0))
    \/ Commit(Value(St, isEmpty(St)), Call("isEmpty", "", <<>>, 0))
    \/ Commit(Value(St, isFull(St)), Call("isFull", "", <<>>, 0))
    \/ Commit(Value(St, available(St)), Call("available", "", <<>>, 0))

Next ==
    \/ Return
    \/ CallNew
    \/ CallIterate
    \/ CallForEach
    \/ CallMap
    \/ CallFilter
    \/ CallGetInfo
    \/ CallGetFirstAndLast
    \/ CallStatus
    \/ CallPush
    \/ CallPop
    \/ CallGetOne
    \/ CallGetMany
    \/ CallClear
    \/ CallResize
    \/ CallPushHead
    \/ CallPushTail
    \/ CallPopHead
    \/ CallPopTail
    \/ CallGetHead
    \/ CallGetTail
    \/ CallGetAll
    \/ CallReplaceAll

Spec == Init /\ [][Next]_vars

\* ---------------------------------------------- actions of a mounted hook

\* initialItems of a later render.
LaterInitialItems == {Ramp(2, 2)}

\* Bulk inputs of the hook's callbacks: none, one item, more than any capacity.
HookInputs == {Ramp(1, 0), Ramp(1, 1), Ramp(1, MaxLen)}

\* Count arguments of the hook's popHead / popTail.
HookCounts == {0 - 1, 1}

\* Capacity arguments of the first render: the smallest and the largest.
MountCapacities == {1, MaxCap}

\* Capacity arguments of a later render and of the hook's resize: a rejected
\* one, the smallest and the largest.
HookCapacities == {0, 1, MaxCap}

\* A hook callback or a render ran: the store, what the hook returns and the
\* record of the call.
HookCommit(h, o, cap) ==
    /\ op = NoCall
    /\ buffer' = h.out.st.buffer
    /\ capacity' = h.out.st.capacity
    /\ logicalCapacity' = h.out.st.logicalCapacity
    /\ size' = h.out.st.size
    /\ head' = h.out.st.head
    /\ tail' = h.out.st.tail
    /\ op' = o
    /\ ret' = [kind |-> h.out.kind, val |-> h.out.val, msg |-> h.out.msg]
    /\ before' = St
    /\ mounted' = h.mounted
    /\ capacityParam' = cap
    /\ view' = h.view
    /\ UNCHANGED iters

\* The component mounts with a capacity and initialItems.
HookInit ==
    \E cap \in MountCapacities, initialItems \in Inputs :
        LET h  == mount(cap, initialItems)
            st == IF h.out.st = <<>> THEN constructor(cap).st ELSE h.out.st
        IN /\ buffer = st.buffer
           /\ capacity = st.capacity
           /\ logicalCapacity = st.logicalCapacity
           /\ size = st.size
           /\ head = st.head
           /\ tail = st.tail
           /\ op = Call("mount", "", initialItems, cap)
           /\ ret = [kind |-> h.out.kind, val |-> h.out.val, msg |-> h.out.msg]
           /\ before = constructor(cap).st
           /\ mounted = h.mounted
           /\ capacityParam = cap
           /\ view = h.view
           /\ iters = NoIters

\* The parent renders the component again, with any capacity and initialItems.
Rerender ==
    /\ mounted
    /\ \E cap \in HookCapacities, initialItems \in LaterInitialItems :
          HookCommit(rerender(St, view, capacityParam, cap),
                     Call("render", "", initialItems, cap), cap)

HookPushHead ==
    /\ mounted
    /\ \/ \E item \in Items :
             HookCommit(hookPushHead(St, view, Single(item)),
                        Call("hook.pushHead", "", <<item>>, 0), capacityParam)
       \/ \E items \in HookInputs :
             HookCommit(hookPushHead(St, view, ArrayOf(items)),
                        Call("hook.pushHeadMany", "", items, 0), capacityParam)

HookPushTail ==
    /\ mounted
    /\ \/ \E item \in Items :
             HookCommit(hookPushTail(St, view, Single(item)),
                        Call("hook.pushTail", "", <<item>>, 0), capacityParam)
       \/ \E items \in HookInputs :
             HookCommit(hookPushTail(St, view, ArrayOf(items)),
                        Call("hook.pushTailMany", "", items, 0), capacityParam)

HookPopHead ==
    /\ mounted
    /\ \/ HookCommit(hookPopHead(St, view, FALSE, 0),
                     Call("hook.popHead", "", <<>>, 0), capacityParam)
       \/ \E n \in HookCounts :
             HookCommit(hookPopHead(St, view, TRUE, n),
                        Call("hook.popHeadN", "", <<>>, n), capacityParam)

HookPopTail ==
    /\ mounted
    /\ \/ HookCommit(hookPopTail(St, view, FALSE, 0),
                     Call("hook.popTail", "", <<>>, 0), capacityParam)
       \/ \E n \in HookCounts :
             HookCommit(hookPopTail(St, view, TRUE, n),
                        Call("hook.popTailN", "", <<>>, n), capacityParam)

HookClear ==
    /\ mounted
    /\ HookCommit(hookClear(St, view), Call("hook.clear", "", <<>>, 0), capacityParam)

HookReplaceAll ==
    /\ mounted
    /\ \E items \in HookInputs :
          HookCommit(hookReplaceAll(St, view, items),
                     Call("hook.replaceAll", "", items, 0), capacityParam)

HookResize ==
    /\ mounted
    /\ \E c \in HookCapacities :
          HookCommit(hookResize(St, view, c), Call("hook.resize", "", <<>>, c), capacityParam)

\* The store of the manager the hook returns, written to without the hook:
\* one item at a time, while what the hook shows is the store's content.
StorePush ==
    /\ mounted
    /\ view = sync(St)
    /\ \E item \in Items :
          Commit(push(St, item, Direction.TAIL), Call("push", Direction.TAIL, <<item>>, 0))

HookNext ==
    \/ Return
    \/ Rerender
    \/ HookPushHead
    \/ HookPushTail
    \/ HookPopHead
    \/ HookPopTail
    \/ HookClear
    \/ HookReplaceAll
    \/ HookResize
    \/ StorePush

HookSpec == HookInit /\ [][HookNext]_vars

\* ------------------------------------------------- iterations step by step

\* The caller obtains iterator k, dropping the finished one it held.
IterStart(k) ==
    /\ op = NoCall
    /\ iters[k].state # "open"
    /\ iters' = [iters EXCEPT ![k] = newIterator]
    /\ UNCHANGED <<buffer, capacity, logicalCapacity, size, head, tail, op, ret, before>>
    /\ UNCHANGED hookVars

\* The caller calls next() on iterator k.
IterNext(k) ==
    /\ op = NoCall
    /\ iters[k].state = "open"
    /\ LET r == next(St, iters[k])
       IN /\ iters' = [iters EXCEPT ![k] = r.it]
          /\ op' = Call("next", "", <<>>, k)
          /\ ret' = [kind |-> r.out.kind, val |-> r.out.val, msg |-> r.out.msg]
          /\ before' = St
    /\ UNCHANGED <<buffer, capacity, logicalCapacity, size, head, tail>>
    /\ UNCHANGED hookVars

\* The caller lets go of the finished iterator k.
IterDrop(k) ==
    /\ op = NoCall
    /\ iters[k].state = "done"
    /\ iters' = [iters EXCEPT ![k] = NoIter]
    /\ UNCHANGED <<buffer, capacity, logicalCapacity, size, head, tail, op, ret, before>>
    /\ UNCHANGED hookVars

\* A call that changes the store.
Mutate ==
    \/ CallPush
    \/ CallPop
    \/ CallClear
    \/ CallResize

\* Iterations whose steps interleave with each other, the store being changed
\* only while the caller holds no iterator.
IterQuiet == iters = NoIters /\ Mutate

IterNextStep ==
    \/ Return
    \/ \E k \in IterIds : IterStart(k)
    \/ \E k \in IterIds : IterNext(k)
    \/ \E k \in IterIds : IterDrop(k)
    \/ IterQuiet

IterSpec == Init /\ [][IterNextStep]_vars

\* One iteration whose steps interleave with changes of the store, as when the
\* callback of forEach / map / filter or the body of a for-of loop changes the
\* buffer it walks.
MutIterNextStep ==
    \/ Return
    \/ IterStart(1)
    \/ IterNext(1)
    \/ Mutate

\* Every call returns (each method is a bounded loop), and the loop that holds
\* the iterator calls next() again whenever the call made in its body has
\* returned.
MutIterSpec ==
    Init /\ [][MutIterNextStep]_vars /\ WF_vars(Return) /\ SF_vars(IterNext(1))

\* ------------------------------------------------------------------ claims

\* The items held now and when the last call started, oldest to newest.
Content == iterate(St)

Was == iterate(before)

TakeFirst(s, n) == IF n >= Len(s) THEN s ELSE SubSeq(s, 1, n)

TakeLast(s, n) == IF n >= Len(s) THEN s ELSE SubSeq(s, Len(s) - n + 1, Len(s))

DropFirst(s, n) == IF n >= Len(s) THEN <<>> ELSE SubSeq(s, n + 1, Len(s))

DropLast(s, n) == IF n >= Len(s) THEN <<>> ELSE SubSeq(s, 1, Len(s) - n)

Reverse(s) == [i \in 1 .. Len(s) |-> s[Len(s) - i + 1]]

\* The live range runs past the end of the storage.
Wrapped(b) == b.head + b.size > b.capacity

Valid(d) == d \in {Direction.HEAD, Direction.TAIL}

\* C1: after any sequence of operations, 0 <= size() <= capacity(), with
\* capacity() the logical capacity.
C1_SizeWithinCapacity ==
    /\ 0 <= getSize(St)
    /\ getSize(St) <= getLogicalCapacity(St)

\* A push on a buffer that is full below its physical capacity has run.
C1_Witness ==
    /\ op.name = "push"
    /\ op.dir = Direction.TAIL
    /\ before.size = before.logicalCapacity
    /\ before.logicalCapacity < before.capacity
    /\ size = logicalCapacity

\* C2: push(x, TAIL) leaves the last L elements of the old content followed by
\* x: below capacity the item is appended and the size grows by one, at
\* capacity exactly the oldest element goes and the size stays.
C2_PushTail ==
    (op.name = "push" /\ op.dir = Direction.TAIL) =>
        LET L == before.logicalCapacity
            x == op.items[1]
        IN /\ ret.kind = "void"
           /\ Content = TakeLast(Was \o <<x>>, L)
           /\ before.size < L => (size = before.size + 1 /\ Content = Was \o <<x>>)
           /\ before.size = L => (size = before.size /\ Content = Tail(Was) \o <<x>>)

\* A TAIL push has evicted the oldest of at least two elements.
C2_Witness ==
    /\ op.name = "push"
    /\ op.dir = Direction.TAIL
    /\ before.size = before.logicalCapacity
    /\ before.size >= 2
    /\ Was[1] # Was[2]
    /\ Content[1] = Was[2]

\* C3: push(x, HEAD) leaves the first L elements of x followed by the old
\* content: x is the oldest element, and at capacity exactly the newest
\* element goes and the size stays.
C3_PushHead ==
    (op.name = "push" /\ op.dir = Direction.HEAD) =>
        LET L == before.logicalCapacity
            x == op.items[1]
        IN /\ ret.kind = "void"
           /\ Content = TakeFirst(<<x>> \o Was, L)
           /\ Content[1] = x
           /\ before.size < L => size = before.size + 1
           /\ before.size = L => (size = before.size /\ Content = <<x>> \o DropLast(Was, 1))

\* A HEAD push has evicted the newest of at least two elements.
C3_Witness ==
    /\ op.name = "push"
    /\ op.dir = Direction.HEAD
    /\ before.size = before.logicalCapacity
    /\ before.size >= 2
    /\ Was[1] # Was[2]
    /\ Content[2] = Was[1]

\* C4: on a non-empty buffer pop(HEAD) returns the oldest element and
\* pop(TAIL) the newest; the size drops by one and the rest keeps its order.
C4_Pop ==
    (op.name = "pop" /\ Valid(op.dir) /\ before.size > 0) =>
        /\ ret.kind = "value"
        /\ size = before.size - 1
        /\ op.dir = Direction.HEAD => (ret.val = <<Was[1]>> /\ Content = Tail(Was))
        /\ op.dir = Direction.TAIL =>
               (ret.val = <<Was[Len(Was)]>> /\ Content = DropLast(Was, 1))

\* A TAIL pop has taken the newest element of a wrapped buffer.
C4_Witness ==
    /\ op.name = "pop"
    /\ op.dir = Direction.TAIL
    /\ before.size >= 2
    /\ Wrapped(before)
    /\ Was[1] # Was[Len(Was)]
    /\ ret.val = <<Was[Len(Was)]>>

\* C5: on an empty buffer pop and get on either side return undefined, the
\* counted get, popHead(n) and popTail(n) return an empty sequence for every
\* n, none raises, and the buffer is as it was.
C5_EmptyBuffer ==
    before.size = 0 =>
        /\ (op.name \in {"pop", "get"} /\ Valid(op.dir)) =>
               (ret.kind = "value" /\ ret.val = <<Undefined>> /\ St = before)
        /\ (op.name = "getN" /\ Valid(op.dir)) =>
               (ret.kind = "array" /\ ret.val = <<>> /\ St = before)
        /\ op.name \in {"popHeadN", "popTailN"} =>
               (ret.kind = "array" /\ ret.val = <<>> /\ St = before)

\* A pop has run on a buffer emptied after use.
C5_Witness ==
    /\ op.name = "pop"
    /\ op.dir = Direction.HEAD
    /\ before.size = 0
    /\ before.capacity >= 2
    /\ ret.val = <<Undefined>>

\* C6: get(HEAD, n) returns the first k elements oldest first and get(TAIL, n)
\* the last k elements newest first, k = min(max(0, n), size); n <= 0 gives an
\* empty sequence, n > size is clamped, and the buffer is unchanged.
C6_GetMany ==
    (op.name = "getN" /\ Valid(op.dir)) =>
        LET k == Min(Max(0, op.n), before.size)
        IN /\ ret.kind = "array"
           /\ Len(ret.val) = k
           /\ op.dir = Direction.HEAD => ret.val = TakeFirst(Was, k)
           /\ op.dir = Direction.TAIL => ret.val = Reverse(TakeLast(Was, k))
           /\ op.n <= 0 => ret.val = <<>>
           /\ St = before

\* A counted TAIL peek beyond the size has read a wrapped buffer.
C6_Witness ==
    /\ op.name = "getN"
    /\ op.dir = Direction.TAIL
    /\ op.n > before.size
    /\ before.size >= 2
    /\ Wrapped(before)
    /\ Was[1] # Was[Len(Was)]
    /\ Len(ret.val) = before.size

\* One-by-one insertion of every input item through the store's own push, with
\* no truncation: forward to TAIL, and in reverse to HEAD.
RECURSIVE NaiveTail(_, _)
NaiveTail(b, items) ==
    IF items = <<>> THEN b
    ELSE NaiveTail(push(b, Head(items), Direction.TAIL).st, Tail(items))

RECURSIVE NaiveHead(_, _)
NaiveHead(b, items) ==
    IF items = <<>> THEN b
    ELSE NaiveHead(push(b, items[Len(items)], Direction.HEAD).st, DropLast(items, 1))

\* C7: pushTail(items) with more items than the logical capacity L leaves
\* exactly the last L items in input order, size = L.
C7_PushTailOverflow ==
    (op.name = "pushTailMany" /\ Len(op.items) > before.logicalCapacity) =>
        /\ ret.kind = "void"
        /\ Content = TakeLast(op.items, before.logicalCapacity)
        /\ size = before.logicalCapacity

\* C8: pushHead(items) leaves the first L elements of items followed by the
\* old content, the first input item oldest.
C8_PushHeadBulk ==
    op.name = "pushHeadMany" =>
        /\ ret.kind = "void"
        /\ Content = TakeFirst(op.items \o Was, before.logicalCapacity)

\* C9: the bulk push with truncation gives the same content as naive
\* one-by-one insertion of every input item (forward to TAIL for pushTail, in
\* reverse to HEAD for pushHead).
C9_BulkEqualsNaive ==
    /\ op.name = "pushTailMany" => Content = iterate(NaiveTail(before, op.items))
    /\ op.name = "pushHeadMany" => Content = iterate(NaiveHead(before, op.items))

\* C10: popHead(n) returns the first k elements oldest first and popTail(n)
\* the last k elements newest first, k = min(max(0, n), size); the size drops
\* by k and the content is the old one without the returned elements.
C10_PopCounted ==
    LET k == Min(Max(0, op.n), before.size)
    IN /\ op.name = "popHeadN" =>
              /\ ret.kind = "array"
              /\ ret.val = TakeFirst(Was, k)
              /\ size = before.size - k
              /\ Content = DropFirst(Was, k)
       /\ op.name = "popTailN" =>
              /\ ret.kind = "array"
              /\ ret.val = Reverse(TakeLast(Was, k))
              /\ size = before.size - k
              /\ Content = DropLast(Was, k)

\* C11 as stated: for every newCapacity >= size, resize(newCapacity) keeps the
\* content, its order and the size, and sets capacity() to newCapacity, so
\* available() = newCapacity - size.
C11_ResizeKeepsAsStated ==
    (op.name = "resize" /\ op.n >= before.size) =>
        /\ ret.kind = "void"
        /\ Content = Was
        /\ size = before.size
        /\ capacity_(St) = op.n
        /\ available(St) = op.n - before.size

\* C11, amended: the same for every newCapacity >= size that is positive,
\* whether the physical storage grows or not and whether the live range wraps.
C11_ResizeKeeps ==
    (op.name = "resize" /\ op.n >= before.size /\ op.n > 0) =>
        /\ ret.kind = "void"
        /\ Content = Was
        /\ size = before.size
        /\ capacity_(St) = op.n
        /\ available(St) = op.n - before.size

\* A resize has grown the storage of a wrapped buffer of two different items.
C11_Witness ==
    /\ op.name = "resize"
    /\ op.n > before.capacity
    /\ before.size >= 2
    /\ Wrapped(before)
    /\ Was[1] # Was[2]
    /\ Content = Was

\* C12: resize(newCapacity) with 0 < newCapacity < size discards exactly the
\* oldest size - newCapacity elements: size = capacity() = newCapacity and the
\* content is the last newCapacity elements in their order.
C12_ResizeShrinks ==
    (op.name = "resize" /\ 0 < op.n /\ op.n < before.size) =>
        /\ ret.kind = "void"
        /\ size = op.n
        /\ capacity_(St) = op.n
        /\ Content = TakeLast(Was, op.n)

\* A resize has cut the oldest element off a wrapped buffer.
C12_Witness ==
    /\ op.name = "resize"
    /\ op.n < before.size
    /\ op.n >= 2
    /\ Wrapped(before)
    /\ Was[1] # Was[2]
    /\ Content = Tail(Was)

\* A freshly built buffer of capacity L holding the content c.
Fresh(L, c) == NaiveTail(constructor(L).st, c)

\* The storage indices of the live range.
LiveSlots(b) == {JsMod(b.head + i, b.capacity) : i \in 0 .. b.size - 1}

\* C13: with the logical capacity below the physical storage size, pushes and
\* pops on either side give the contents and return values a freshly built
\* buffer of that logical capacity with the same content gives, and no stale
\* slot becomes visible.  Stated for one call from every reachable state
\* (those with equal capacities too, which the fresh buffer's own later
\* states are), so that it carries over to every sequence of calls.
C13_SameAsFresh ==
    (op.name \in {"push", "pop"} /\ Valid(op.dir)) =>
        LET F == Fresh(before.logicalCapacity, Was)
            r == IF op.name = "push" THEN push(F, op.items[1], op.dir) ELSE pop(F, op.dir)
        IN /\ ret.kind = r.kind
           /\ ret.val = r.val
           /\ Content = iterate(r.st)
           /\ size = r.st.size
           /\ logicalCapacity = r.st.logicalCapacity
           /\ \A i \in 1 .. Len(Content) : Content[i] \in Items

\* A push has evicted from a buffer that is full below its physical capacity
\* and has a stale item in a slot outside the live range.
C13_Witness ==
    /\ op.name = "push"
    /\ op.dir = Direction.TAIL
    /\ before.logicalCapacity < before.capacity
    /\ before.size = before.logicalCapacity
    /\ \E i \in 0 .. before.capacity - 1 :
          i \notin LiveSlots(before) /\ At(before, i) # Undefined
    /\ size = before.size

\* C14: the constructor and resize fail at once with the invalid-capacity
\* error for every capacity <= 0, and accept every capacity > 0.
C14_InvalidCapacity ==
    op.name \in {"constructor", "new", "resize"} =>
        /\ op.n <= 0 =>
              (ret.kind = "throw" /\ ret.msg = InvalidCapacity /\ St = before)
        /\ op.n > 0 => (ret.kind = "void" /\ capacity_(St) = op.n)

\* The constructor has rejected capacity 0.
C14_Witness ==
    /\ op.name = "new"
    /\ op.n = 0
    /\ ret.kind = "throw"
    /\ ret.msg = InvalidCapacity

Raised(m) == ret.kind = "throw" /\ ret.msg = m

\* C15: push(item, direction) fails with the invalid-direction error for every
\* direction outside {HEAD, TAIL}, in every buffer state.
C15_PushInvalidDirection ==
    (op.name = "push" /\ ~Valid(op.dir)) => (Raised(InvalidDirection) /\ St = before)

\* A push with an unknown direction was rejected on a buffer holding items.
C15_Witness ==
    /\ op.name = "push"
    /\ ~Valid(op.dir)
    /\ before.size >= 1
    /\ Raised(InvalidDirection)

\* C16 as stated: pop(direction) fails with the invalid-direction error for
\* every direction outside {HEAD, TAIL}, in every buffer state including the
\* empty buffer.
C16_PopInvalidDirectionAsStated ==
    (op.name = "pop" /\ ~Valid(op.dir)) => Raised(InvalidDirection)

\* C16, amended: it fails so in every non-empty buffer state; on the empty
\* buffer it returns undefined, whatever the direction.
C16_PopInvalidDirection ==
    (op.name = "pop" /\ ~Valid(op.dir)) =>
        /\ before.size > 0 => (Raised(InvalidDirection) /\ St = before)
        /\ before.size = 0 =>
              (ret.kind = "value" /\ ret.val = <<Undefined>> /\ St = before)

\* A pop with an unknown direction was rejected on a buffer holding items.
C16_Witness ==
    /\ op.name = "pop"
    /\ ~Valid(op.dir)
    /\ before.size >= 1
    /\ Raised(InvalidDirection)

\* C17 as stated: get(direction) and get(direction, count) fail with the
\* invalid-direction error for every direction outside {HEAD, TAIL}, in every
\* buffer state (the empty one too) and for every count (count <= 0 too).
C17_GetInvalidDirectionAsStated ==
    (op.name \in {"get", "getN"} /\ ~Valid(op.dir)) => Raised(InvalidDirection)

\* C17, amended: get(direction) fails so on every non-empty buffer, and
\* get(direction, count) on every non-empty buffer when count >= 1; on the
\* empty buffer, and for count <= 0, they return undefined and an empty
\* sequence, whatever the direction.
C17_GetInvalidDirection ==
    /\ (op.name = "get" /\ ~Valid(op.dir)) =>
          /\ before.size > 0 => (Raised(InvalidDirection) /\ St = before)
          /\ before.size = 0 =>
                (ret.kind = "value" /\ ret.val = <<Undefined>> /\ St = before)
    /\ (op.name = "getN" /\ ~Valid(op.dir)) =>
          /\ (before.size > 0 /\ op.n >= 1) => (Raised(InvalidDirection) /\ St = before)
          /\ (before.size = 0 \/ op.n <= 0) =>
                (ret.kind = "array" /\ ret.val = <<>> /\ St = before)

\* A counted get with an unknown direction was rejected on a buffer holding
\* items.
C17_Witness ==
    /\ op.name = "getN"
    /\ ~Valid(op.dir)
    /\ before.size >= 1
    /\ op.n >= 1
    /\ Raised(InvalidDirection)

\* The calls made through the facade's directional methods.
FacadeCalls ==
    {"pushHead", "pushHeadMany", "pushTail", "pushTailMany", "popHead", "popHeadN",
     "popTail", "popTailN", "getHead", "getHeadN", "getTail", "getTailN",
     "replaceAll", "getFirstAndLast"}

\* C18: no BufferManager call ever raises the invalid-direction error: the
\* directions the facade passes to the store are members of {HEAD, TAIL}.
C18_FacadeNeverInvalidDirection ==
    /\ Valid(FRONT)
    /\ Valid(BACK)
    /\ op.name \in FacadeCalls => ~Raised(InvalidDirection)

\* The calls that only read: iteration, peeks, the facade's getters, the
\* traversals and the status queries.
ReadCalls ==
    {"get", "getN", "iterate", "getAll", "getHead", "getHeadN", "getTail", "getTailN",
     "forEach", "map", "filter", "getInfo", "getFirstAndLast",
     "size", "capacity", "isEmpty", "isFull", "available"}

\* C19: a read (iteration, getAll, getHead/getTail single or counted,
\* forEach/map/filter, getInfo, getFirstAndLast, a status query) changes no
\* field of the buffer, so size, capacity, content and the result of every
\* later peek or pop are what they were before it.
C19_ReadsChangeNothing ==
    op.name \in ReadCalls =>
        /\ St = before
        /\ size_(St) = size_(before)
        /\ capacity_(St) = capacity_(before)
        /\ Content = Was
        /\ \A d \in Directions :
              /\ getOne(St, d) = getOne(before, d)
              /\ pop(St, d) = pop(before, d)

\* C19 witness: a peek at the head of a full buffer whose live range wraps
\* around the end of the array returned the oldest item.
C19_Witness ==
    /\ op.name = "get"
    /\ op.dir = Direction.HEAD
    /\ size = capacity
    /\ size >= 2
    /\ head > 0
    /\ ret.kind = "value"
    /\ ret.val = <<Content[1]>>
    /\ St = before

\* C20: when a pop (on either side) takes the last item, the buffer is empty
\* and a push of any item x on either side makes x both the head and the tail
\* with size 1; a push actually made on an empty buffer has that result too.
C20_RefillAfterEmpty ==
    /\ (op.name = "pop" /\ Valid(op.dir) /\ before.size = 1) =>
          /\ size = 0
          /\ \A x \in Items, d \in {Direction.HEAD, Direction.TAIL} :
                LET b2 == push(St, x, d).st
                IN /\ b2.size = 1
                   /\ getOne(b2, Direction.HEAD) = Value(b2, x)
                   /\ getOne(b2, Direction.TAIL) = Value(b2, x)
    /\ (op.name = "push" /\ Valid(op.dir) /\ before.size = 0) =>
          /\ size = 1
          /\ getOne(St, Direction.HEAD) = Value(St, op.items[1])
          /\ getOne(St, Direction.TAIL) = Value(St, op.items[1])

\* C20 witness: the last item, lying past slot 0 after earlier pushes and
\* pops, was popped at the tail and the buffer is empty.
C20_Witness ==
    /\ op.name = "pop"
    /\ op.dir = Direction.TAIL
    /\ before.size = 1
    /\ before.head > 0
    /\ capacity >= 2
    /\ size = 0
    /\ ret.val = <<before.buffer[before.head + 1]>>

\* C21: in every reachable state the status queries agree with the content:
\* size() is the number of elements of getAll(), isEmpty() is size() = 0,
\* isFull() is size() = capacity(), available() is capacity() - size() and is
\* not negative, and isEmpty() and isFull() never hold together; a status call
\* returns that value.
C21_StatusAgrees ==
    /\ size_(St) = Len(getAll(St).val)
    /\ isEmpty(St) <=> (size_(St) = 0)
    /\ isFull(St) <=> (size_(St) = capacity_(St))
    /\ available(St) = capacity_(St) - size_(St)
    /\ available(St) >= 0
    /\ ~(isEmpty(St) /\ isFull(St))
    /\ op.name = "size" => ret.val = <<Len(Content)>>
    /\ op.name = "capacity" => ret.val = <<logicalCapacity>>
    /\ op.name = "isEmpty" => ret.val = <<Content = <<>> >>
    /\ op.name = "isFull" => ret.val = <<Len(Content) = logicalCapacity>>
    /\ op.name = "available" => ret.val = <<logicalCapacity - Len(Content)>>

\* C21 witness: isFull() answered true on a buffer shrunk below its physical
\* capacity, holding as many items as the logical capacity allows.
C21_Witness ==
    /\ op.name = "isFull"
    /\ ret.val = <<TRUE>>
    /\ logicalCapacity < capacity
    /\ size = logicalCapacity
    /\ available(St) = 0

\* C22: replaceAll(items) leaves the buffer as clear() followed by
\* pushTail(items) does: the content is the last min(Len(items), capacity)
\* elements of items in input order, whatever the content was, and capacity()
\* is unchanged.
C22_ReplaceAll ==
    op.name = "replaceAll" =>
        /\ St = pushTail(clear(before).st, ArrayOf(op.items)).st
        /\ ret.kind = "void"
        /\ Content = TakeLast(op.items, Min(Len(op.items), before.logicalCapacity))
        /\ capacity_(St) = capacity_(before)

\* C23: from every state clear() leaves size 0, an empty content, both
\* cursors at 0 and every later peek returning undefined or an empty
\* sequence; the logical and the physical capacity are unchanged, and a
\* second clear() changes nothing.
C23_Clear ==
    op.name = "clear" =>
        /\ ret.kind = "void"
        /\ size = 0
        /\ Content = <<>>
        /\ head = 0
        /\ tail = 0
        /\ buffer = NewArray(before.capacity)
        /\ logicalCapacity = before.logicalCapacity
        /\ capacity = before.capacity
        /\ \A d \in {Direction.HEAD, Direction.TAIL} :
              /\ getOne(St, d) = Value(St, Undefined)
              /\ \A n \in Counts : getMany(St, d, n) = Array(St, <<>>)
        /\ getHead(St, FALSE, 0) = Value(St, Undefined)
        /\ getTail(St, FALSE, 0) = Value(St, Undefined)
        /\ getAll(St) = Array(St, <<>>)
        /\ clear(St) = Void(St)

\* C23 witness: clear() ran on a buffer shrunk below its physical capacity,
\* holding two or more items that did not start at slot 0.
C23_Witness ==
    /\ op.name = "clear"
    /\ before.size >= 2
    /\ before.head > 0
    /\ before.logicalCapacity < before.capacity
    /\ size = 0
    /\ head = 0
    /\ tail = 0

\* C24: head order and tail order mirror each other: getHead(n) is the
\* length-k prefix of getAll() and getTail(n) the length-k prefix of getAll()
\* reversed, k = min(max(0, n), size); for n >= size, getTail(n) is getHead(n)
\* reversed.
C24_HeadTailMirror ==
    LET k == Min(Max(0, op.n), before.size)
    IN /\ op.name = "getHeadN" =>
              /\ ret.kind = "array"
              /\ ret.val = TakeFirst(getAll(before).val, k)
       /\ op.name = "getTailN" =>
              /\ ret.kind = "array"
              /\ ret.val = TakeFirst(Reverse(getAll(before).val), k)
       /\ (op.name = "getTailN" /\ op.n >= before.size) =>
              ret.val = Reverse(getHead(before, TRUE, op.n).val)

\* The elements of s at the even zero-based positions 0, 2, 4, ...
EvenPositions(s) == [j \in 1 .. ((Len(s) + 1) \div 2) |-> s[2 * j - 1]]

\* C25: forEach, map and filter visit every live element exactly once, oldest
\* to newest, with the indices 0, 1, ..., size - 1 in that order; map returns
\* one result per element in that order and filter the accepted elements in
\* their original order; none of them changes the buffer.
C25_Traversals ==
    /\ Len(visits(St)) = size
    /\ \A i \in 1 .. size : visits(St)[i] = <<Content[i], i - 1>>
    /\ op.name = "forEach" => (ret.kind = "void" /\ St = before)
    /\ op.name = "map" =>
          /\ ret.kind = "array"
          /\ ret.val = [i \in 1 .. before.size |-> Was[i] * 10 + (i - 1)]
          /\ St = before
    /\ (op.name = "filter" /\ op.dir = "item") =>
          /\ ret.kind = "array"
          /\ ret.val = SelectSeq(Was, LAMBDA x : x = 1)
          /\ St = before
    /\ (op.name = "filter" /\ op.dir = "index") =>
          /\ ret.kind = "array"
          /\ ret.val = EvenPositions(Was)
          /\ St = before

\* C25 witness: map ran over a full buffer of three items whose live range
\* wraps around the end of the storage, the oldest and the newest item being
\* different.
C25_Witness ==
    /\ op.name = "map"
    /\ before.size = 3
    /\ Wrapped(before)
    /\ Was[1] # Was[3]
    /\ ret.val = <<Was[1] * 10, Was[2] * 10 + 1, Was[3] * 10 + 2>>

\* The mutating callbacks of the hook.
HookMutators ==
    {"hook.pushHead", "hook.pushHeadMany", "hook.pushTail", "hook.pushTailMany",
     "hook.popHead", "hook.popHeadN", "hook.popTail", "hook.popTailN",
     "hook.clear", "hook.replaceAll", "hook.resize"}

C27_CapacityEffectAsStated ==
    [][(op'.name = "render" /\ op'.n # capacityParam) =>
          /\ ret'.kind = "void"
          /\ view'.capacity = op'.n
          /\ view' = sync(St')
          /\ iterate(St') = TakeLast(iterate(St), op'.n)]_vars

\* C27: whenever the capacity argument changes between renders to a value
\* greater than 0, the buffer is resized to it and the data re-synchronised:
\* capacity reports the new value, the items are kept when the new capacity is
\* at least the size and only the newest are kept when it is smaller; a render
\* with the same capacity leaves the buffer as it is.
C27_CapacityEffect ==
    [][/\ (op'.name = "render" /\ op'.n # capacityParam /\ op'.n > 0) =>
             /\ ret'.kind = "void"
             /\ mounted'
             /\ logicalCapacity' = op'.n
             /\ view'.capacity = op'.n
             /\ view' = sync(St')
             /\ iterate(St') = TakeLast(iterate(St), op'.n)
             /\ size >= op'.n => size' = op'.n
             /\ size <= op'.n => iterate(St') = iterate(St)
       /\ (op'.name = "render" /\ op'.n = capacityParam) => St' = St]_vars

\* C27 witness: a render with a smaller capacity has cut a buffer of two or
\* more items down to the newest ones, and the hook shows them.
C27_Witness ==
    /\ op.name = "render"
    /\ mounted
    /\ op.n > 0
    /\ before.size >= 2
    /\ before.size > op.n
    /\ size = op.n
    /\ Content = TakeLast(Was, op.n)
    /\ Was[1] # Was[Len(Was)]
    /\ view.data = Content
    /\ view.capacity = op.n

\* C28: initialItems are applied once, on mount, as pushTail does: the first
\* data is the last min(Len(initialItems), capacity) items in input order; a
\* later render with other initialItems does not change the buffer.
C28_InitialItems ==
    /\ op.name = "mount" =>
          /\ mounted
          /\ ret.kind = "void"
          /\ view.data = TakeLast(op.items, Min(Len(op.items), op.n))
          /\ Content = view.data
    /\ (op.name = "render" /\ ret.kind = "void" /\ logicalCapacity = before.logicalCapacity) =>
          St = before

\* C29: in every reachable state with size > 0 the live elements occupy the
\* circular range of size slots starting at head (no slot of it is empty, its
\* first slot is what get(HEAD) returns and its last what get(TAIL) returns),
\* and tail = (head + size) mod capacity, capacity being the physical one.
C29_LiveRange ==
    size > 0 =>
        /\ head \in 0 .. capacity - 1
        /\ tail \in 0 .. capacity - 1
        /\ size <= capacity
        /\ tail = (head + size) % capacity
        /\ \A i \in LiveSlots(St) : buffer[i + 1] # Undefined
        /\ getOne(St, Direction.HEAD) = Value(St, buffer[head + 1])
        /\ getOne(St, Direction.TAIL) = Value(St, buffer[((head + size - 1) % capacity) + 1])

\* C29 witness: a push at the head of a buffer full at its logical capacity
\* overwrote the newest item and moved both cursors back, the live range
\* running past the end of the storage.
C29_Witness ==
    /\ op.name = "push"
    /\ op.dir = Direction.HEAD
    /\ before.size = before.logicalCapacity
    /\ before.size >= 2
    /\ size = before.size
    /\ tail # before.tail
    /\ Wrapped(St)
    /\ tail = (head + size) % capacity

\* C30: in every reachable state with size = 0 both cursors are 0, whether
\* the buffer was just constructed, popped empty from either side, cleared or
\* resized.
C30_EmptyCursors ==
    size = 0 => (head = 0 /\ tail = 0)

\* C30 witness: the only item, lying past slot 0, was popped at the head and
\* both cursors are back at 0.
C30_Witness ==
    /\ op.name = "pop"
    /\ op.dir = Direction.HEAD
    /\ before.size = 1
    /\ before.head > 0
    /\ before.tail # 0
    /\ size = 0
    /\ head = 0
    /\ tail = 0

\* C31: in every reachable state 1 <= logical capacity <= physical capacity
\* and both cursors lie in 0 .. physical capacity - 1; no operation on a
\* buffer lowers its physical capacity, which changes only in a resize to a
\* value above it, and then to that value.
C31_Capacities ==
    /\ 1 <= logicalCapacity
    /\ logicalCapacity <= capacity
    /\ head \in 0 .. capacity - 1
    /\ tail \in 0 .. capacity - 1
    /\ op.name # "new" =>
          /\ capacity >= before.capacity
          /\ capacity # before.capacity =>
                (op.name = "resize" /\ op.n > before.capacity /\ capacity = op.n)

\* C31 witness: a resize above the physical capacity grew the storage of a
\* buffer that had been shrunk below it and whose items did not start at
\* slot 0.
C31_Witness ==
    /\ op.name = "resize"
    /\ op.n > before.capacity
    /\ before.logicalCapacity < before.capacity
    /\ before.head > 0
    /\ before.size >= 1
    /\ capacity = op.n
    /\ logicalCapacity = op.n
    /\ head = 0
    /\ tail = size

\* C32: resize(newCapacity) with 0 < newCapacity <= physical capacity leaves
\* the physical capacity, the storage slots and tail unchanged; when also
\* newCapacity >= size it leaves head and size unchanged, so only the logical
\* capacity changes.
C32_ResizeInPlace ==
    (op.name = "resize" /\ 0 < op.n /\ op.n <= before.capacity) =>
        /\ ret.kind = "void"
        /\ capacity = before.capacity
        /\ buffer = before.buffer
        /\ tail = before.tail
        /\ logicalCapacity = op.n
        /\ op.n >= before.size =>
              /\ head = before.head
              /\ size = before.size
              /\ St = [before EXCEPT !.logicalCapacity = op.n]

\* C32 witness: a resize below the size moved head past the oldest items and
\* left their slots, and tail, as they were.
C32_Witness ==
    /\ op.name = "resize"
    /\ 0 < op.n
    /\ op.n < before.size
    /\ size = op.n
    /\ head # before.head
    /\ buffer = before.buffer
    /\ buffer[before.head + 1] # Undefined
    /\ tail = before.tail
    /\ capacity = before.capacity

\* Whether every way of pushing n more items, on either side, fills the buffer.
RECURSIVE FillsUp(_, _)
FillsUp(b, n) ==
    IF n = 0 THEN isFull(b)
    ELSE \A d \in {Direction.HEAD, Direction.TAIL} :
            LET r == push(b, 1, d) IN r.kind = "void" /\ FillsUp(r.st, n - 1)

\* Whether every way of popping n items, from either side, empties the buffer.
RECURSIVE EmptiesOut(_, _)
EmptiesOut(b, n) ==
    IF n = 0 THEN isEmpty(b)
    ELSE \A d \in {Direction.HEAD, Direction.TAIL} :
            LET r == pop(b, d) IN r.kind = "value" /\ EmptiesOut(r.st, n - 1)

\* C33: no state is terminal: in every state the buffer is left in between
\* two calls, push and pop on either side, get, clear and resize with a
\* positive capacity complete without an exception; capacity - size further
\* pushes reach the FULL state, and size further pops, or one clear, the EMPTY
\* state.
C33_NoTerminalState ==
    op = NoCall =>
        /\ \A d \in {Direction.HEAD, Direction.TAIL} :
              /\ \A x \in Items : push(St, x, d).kind = "void"
              /\ pop(St, d).kind = "value"
              /\ getOne(St, d).kind = "value"
              /\ \A n \in Counts : getMany(St, d, n).kind = "array"
        /\ clear(St).kind = "void"
        /\ \A c \in 1 .. MaxCap : resize(St, c).kind = "void"
        /\ FillsUp(St, available(St))
        /\ EmptiesOut(St, size_(St))
        /\ isEmpty(clear(St).st)

\* C33 witness: between two calls the buffer, shrunk below its physical
\* capacity, is neither empty nor full, its items not starting at slot 0; one
\* more push fills it and one pop empties it.
C33_Witness ==
    /\ op = NoCall
    /\ size = 1
    /\ logicalCapacity = 2
    /\ logicalCapacity < capacity
    /\ head > 0
    /\ isFull(push(St, 1, Direction.HEAD).st)
    /\ isEmpty(pop(St, Direction.TAIL).st)

\* The calls on the store that can raise.
StoreCalls == {"push", "pop", "get", "getN", "resize", "new"}

\* C35: a call on the store that raises (push, pop or get with an invalid
\* direction, resize or the constructor with a capacity <= 0) leaves size,
\* content, cursors, storage and both capacities exactly as they were.
C35_RaiseChangesNothing ==
    (op.name \in StoreCalls /\ ret.kind = "throw") =>
        /\ St = before
        /\ Content = Was
        /\ \/ (op.name \in {"push", "pop", "get", "getN"} /\ ~Valid(op.dir)
               /\ ret.msg = InvalidDirection)
           \/ (op.name \in {"resize", "new"} /\ op.n <= 0 /\ ret.msg = InvalidCapacity)

\* C35 witness: a pop with an unknown direction was rejected on a full buffer
\* whose live range wraps around the end of the storage.
C35_Witness ==
    /\ op.name = "pop"
    /\ ~Valid(op.dir)
    /\ ret.kind = "throw"
    /\ before.size >= 2
    /\ Wrapped(before)
    /\ St = before

\* C36: push(x, d) immediately followed by pop(d), d in {HEAD, TAIL}, returns
\* x; the content is then what it was before the push if the buffer was not
\* full, and what it was without the element at the opposite end if it was.
C36_PushPopRoundTrip ==
    (op.name = "push" /\ Valid(op.dir)) =>
        LET q    == pop(St, op.dir)
            full == before.size = before.logicalCapacity
        IN /\ q.kind = "value"
           /\ q.val = op.items
           /\ ~full => iterate(q.st) = Was
           /\ (full /\ op.dir = Direction.TAIL) => iterate(q.st) = DropFirst(Was, 1)
           /\ (full /\ op.dir = Direction.HEAD) => iterate(q.st) = DropLast(Was, 1)

\* C36 witness: an item was pushed at the tail of a full buffer of two or more
\* items, the oldest being another item, and popping the tail gives it back
\* and leaves the old content without its oldest element.
C36_Witness ==
    /\ op.name = "push"
    /\ op.dir = Direction.TAIL
    /\ before.size = before.logicalCapacity
    /\ before.size >= 2
    /\ Was[1] # op.items[1]
    /\ pop(St, Direction.TAIL).val = op.items
    /\ iterate(pop(St, Direction.TAIL).st) = DropFirst(Was, 1)

\* C34: with several iterations in progress at once, their steps interleaved
\* in any order and no mutation in between, the j-th next() of each iterator
\* yields the j-th element of the content, oldest first; each iterator has
\* yielded size elements when it ends and not before, and changes nothing; an
\* iterator obtained after a finished one behaves the same.
C34_InterleavedIterations ==
    /\ \A k \in IterIds :
          /\ iters[k].state = "open" => iters[k].i <= size
          /\ iters[k].state = "done" => iters[k].i = size
    /\ op.name = "next" =>
          /\ St = before
          /\ ret.kind = "value" =>
                /\ iters[op.n].state = "open"
                /\ iters[op.n].i \in 1 .. size
                /\ ret.val = <<iterate(St)[iters[op.n].i]>>
          /\ ret.kind # "value" =>
                /\ ret.kind = "done"
                /\ iters[op.n].state = "done"
                /\ iters[op.n].i = Len(iterate(St))

\* C34 witness: one iterator ended after yielding all the items of a buffer
\* whose live range wraps around the end of the storage, while the other one
\* is part of the way through.
C34_Witness ==
    /\ op.name = "next"
    /\ ret.kind = "done"
    /\ size >= 2
    /\ Wrapped(St)
    /\ iters[op.n].state = "done"
    /\ iters[op.n].i = size
    /\ \E k \in IterIds :
          /\ k # op.n
          /\ iters[k].state = "open"
          /\ iters[k].i > 0
          /\ iters[k].i < size

\* The element next() has just yielded is read from a slot of the live range
\* of this moment and is an element of the content, not an empty slot.
YieldIsLive ==
    (op.name = "next" /\ ret.kind = "value") =>
        LET slot == JsMod(head + (iters[op.n].i - 1), capacity)
        IN /\ iters[op.n].i \in 1 .. size
           /\ slot \in LiveSlots(St)
           /\ ret.val = <<buffer[slot + 1]>>
           /\ ret.val[1] # Undefined
           /\ \E j \in 1 .. size : iterate(St)[j] = ret.val[1]

\* C37: an iteration whose steps interleave with mutations of the buffer never
\* reads outside the live range (every element it yields is live when it is
\* yielded), and once no further push occurs it ends.
C37_MutatedIteration ==
    /\ []YieldIsLive
    /\ <>[](op.name # "push") => (iters[1].state = "open" ~> iters[1].state = "done")

\* C37 witness: the iteration ended with its position past the size, items
\* having been popped while it was in progress.
C37_Witness ==
    /\ op.name = "next"
    /\ ret.kind = "done"
    /\ iters[1].state = "done"
    /\ iters[1].i > size
    /\ size >= 1

====
